---- MODULE Spec2Model ----
(***************************************************************************)
(* Model of the experimental vertex_model serializers of python-aiplatform *)
(*   serializers/pytorch.py : _serialize_dataloader, _deserialize_dataloader*)
(*   utils/source_utils.py  : SourceMaker, _make_class_source, _make_source *)
(*                                                                         *)
(* A Python str is a sequence of atoms.  An atom is either a separator     *)
(* ("/" in paths, "\n" in source text) or a fragment that contains no      *)
(* separator, so concatenation, startswith("gs://"), endswith("/"),        *)
(* split and join act on atom boundaries exactly as they act on characters.*)
(***************************************************************************)
EXTENDS Integers, Sequences, FiniteSets, TLC

VARIABLES
    call,      \* the last call made: function, arguments, value or exception, effects
    fs,        \* local filesystem: path -> file content
    tmpdirs,   \* temporary directories that exist on the local disk
    ncalls     \* number of calls made so far

vars == <<call, fs, tmpdirs, ncalls>>

\* ------------------------------------------------------------------ bounds

MaxCalls == 2
MaxMembers == 2
MaxParams == 2

\* ------------------------------------------------------- Python values

None == [isNone |-> TRUE, str |-> <<>>]

Some(s) == [isNone |-> FALSE, str |-> s]

\* bool(x) of an Optional[str]: None and "" are falsy
Truthy(o) == ~o.isNone /\ o.str # <<>>

NoExc == [type |-> "none", msg |-> <<>>]

Exc(t, m) == [type |-> t, msg |-> m]

Returns(v, tr, f) == [exc |-> NoExc, value |-> v, trace |-> tr, fs |-> f]

Raises(e, tr, f) == [exc |-> e, value |-> None, trace |-> tr, fs |-> f]

\* ------------------------------------------------------------- str methods

startswith(s, p) == Len(s) >= Len(p) /\ SubSeq(s, 1, Len(p)) = p

endswith(s, p) == Len(s) >= Len(p) /\ SubSeq(s, Len(s) - Len(p) + 1, Len(s)) = p

\* s.split(sep): the pieces between the occurrences of sep, empty pieces kept
RECURSIVE split(_, _)
split(s, sep) ==
    IF \A i \in 1..Len(s) : s[i] # sep
    THEN <<s>>
    ELSE LET i == CHOOSE k \in 1..Len(s) :
                      s[k] = sep /\ \A j \in 1..(k - 1) : s[j] # sep
         IN <<SubSeq(s, 1, i - 1)>> \o split(SubSeq(s, i + 1, Len(s)), sep)

\* s.split(sep, 1): at most one split, at the first occurrence of sep
split1(s, sep) ==
    IF \A i \in 1..Len(s) : s[i] # sep
    THEN <<s>>
    ELSE LET i == CHOOSE k \in 1..Len(s) :
                      s[k] = sep /\ \A j \in 1..(k - 1) : s[j] # sep
         IN <<SubSeq(s, 1, i - 1), SubSeq(s, i + 1, Len(s))>>

\* sep.join(parts)
RECURSIVE join(_, _)
join(sep, parts) ==
    IF parts = <<>> THEN <<>>
    ELSE IF Len(parts) = 1 THEN parts[1]
    ELSE parts[1] \o <<sep>> \o join(sep, Tail(parts))

GS == <<"gs:", "/", "/">>

\* ----------------------------------------------------------------- pathlib

RECURSIVE SelectParts(_)
SelectParts(ps) ==
    IF ps = <<>> THEN <<>>
    ELSE IF Head(ps) = <<>> \/ Head(ps) = <<".">> THEN SelectParts(Tail(ps))
    ELSE <<Head(ps)>> \o SelectParts(Tail(ps))

\* pathlib.Path(p).parts without the root: empty and "." components collapse
PathParts(p) == SelectParts(split(p, "/"))

\* pathlib.Path(p).name: the final component, "" when there is none
PathName(p) ==
    LET ps == PathParts(p) IN IF ps = <<>> THEN <<>> ELSE ps[Len(ps)]

\* str(pathlib.Path(p))
PathStr(p) ==
    LET ps == PathParts(p)
        root == IF startswith(p, <<"/">>) THEN <<"/">> ELSE <<>>
    IN IF ps = <<>> /\ root = <<>> THEN <<".">> ELSE root \o join("/", ps)

\* pathlib.Path(d) / name
PathJoin(d, name) == d \o <<"/">> \o name

\* ------------------------------------------------------------ torch, storage

Pickled(obj) == [kind |-> "pickle", obj |-> obj]

Corrupt(errtype) == [kind |-> "corrupt", err |-> errtype]

\* torch.save(obj, path): writes the pickled object, or the disk refuses
torch_save(obj, path, disk, f) ==
    IF disk = "ok"
    THEN Returns(None,
                 <<[ev |-> "torch.save", path |-> path, raised |-> NoExc]>>,
                 [p \in (DOMAIN f) \cup {path} |->
                      IF p = path THEN Pickled(obj) ELSE f[p]])
    ELSE LET e == Exc("FileNotFoundError", path)
         IN Raises(e, <<[ev |-> "torch.save", path |-> path, raised |-> e]>>, f)

\* torch.load of a file with the given content (NoFile when there is none)
NoFile == [kind |-> "missing"]

torch_load(path, content) ==
    LET e == IF content.kind = "missing" THEN Exc("FileNotFoundError", path)
             ELSE IF content.kind = "corrupt" THEN Exc(content.err, <<"bad file">>)
             ELSE NoExc
        tr == <<[ev |-> "torch.load", path |-> path, raised |-> e]>>
    IN IF e = NoExc THEN Returns(content.obj, tr, <<>>) ELSE Raises(e, tr, <<>>)

\* blob.upload_from_filename(file): one request to the object store
upload_from_filename(bucket, blob, file, outcome) ==
    LET e == IF outcome = "ok" THEN NoExc ELSE Exc(outcome, <<"upload failed">>)
    IN [exc |-> e,
        trace |-> <<[ev |-> "upload", bucket |-> bucket, blob |-> blob,
                     file |-> file, raised |-> e]>>]

\* blob.download_to_filename(file): one request to the object store
download_to_filename(bucket, blob, file, outcome) ==
    LET e == IF outcome = "ok" THEN NoExc ELSE Exc(outcome, <<"download failed">>)
    IN [exc |-> e,
        trace |-> <<[ev |-> "download", bucket |-> bucket, blob |-> blob,
                     file |-> file, raised |-> e]>>]

\* ----------------------------------- collaborators consumed by pytorch.py

\* utils.extract_bucket_and_prefix_from_gcs_path (LocationResolver): the scheme
\* and one trailing separator are dropped, the rest is split at its first
\* separator; a remote string with an empty bucket is an InvalidLocationError.
extract_bucket_and_prefix_from_gcs_path(gcs_path) ==
    LET remote == startswith(gcs_path, GS)
        p1 == IF remote THEN SubSeq(gcs_path, 4, Len(gcs_path)) ELSE gcs_path
        p2 == IF endswith(p1, <<"/">>) THEN SubSeq(p1, 1, Len(p1) - 1) ELSE p1
        gcs_parts == split1(p2, "/")
    IN [exc |-> IF remote /\ gcs_parts[1] = <<>>
                THEN Exc("InvalidLocationError", gcs_path) ELSE NoExc,
        bucket |-> gcs_parts[1],
        prefix |-> IF Len(gcs_parts) = 1 THEN <<>> ELSE gcs_parts[2]]

\* serializer_utils.serialize_to_tmp_and_copy_to_gcs: the object is saved to one
\* temporary local file, uploaded once under the prefix, and the file deleted
\* on every exit path; returns the gs:// path of the blob.
serialize_to_tmp_and_copy_to_gcs(file_name, bucket, prefix, obj, outcome) ==
    LET tmp == <<"/", "tmp", "/", "tmpfile", "/">> \o file_name
        blob == IF prefix # <<>> THEN join("/", <<prefix, file_name>>) ELSE file_name
        up == upload_from_filename(bucket, blob, tmp, outcome)
        tr == <<[ev |-> "tmp.create", path |-> tmp],
                [ev |-> "torch.save", path |-> tmp, raised |-> NoExc]>>
              \o up.trace \o <<[ev |-> "tmp.delete", path |-> tmp]>>
    IN [exc |-> up.exc,
        value |-> GS \o join("/", <<bucket, blob>>),
        trace |-> tr]

\* ------------------------------------------------- serializers/pytorch.py

\* "my_" + dataset_type + "_dataloader.pth"
dataloader_file_name(dataset_type) == <<"my_", dataset_type, "_dataloader.pth">>

_serialize_remote_dataloader(artifact_uri, dataloader_path, obj, dataset_type, env, f) ==
    LET dest == extract_bucket_and_prefix_from_gcs_path(artifact_uri)
        path == serialize_to_tmp_and_copy_to_gcs(
                    dataloader_file_name(dataset_type),
                    dest.bucket, dest.prefix, obj, env.up_artifact)
    IN IF dest.exc # NoExc THEN Raises(dest.exc, <<>>, f)
       ELSE IF path.exc # NoExc THEN Raises(path.exc, path.trace, f)
       ELSE Returns(<<path.value, dataloader_path>>, path.trace, f)

\* a slip: the target prefix is left out of the blob path
origin_blob_path_without_prefix(gcs_blob_prefix, dataloader_path, dataset_type) ==
    <<dataset_type, "_">> \o PathName(dataloader_path)

\* lines 110-114: dataset_type + "_" + Path(dataloader_path).name, under the
\* target prefix when there is one
origin_blob_path(gcs_blob_prefix, dataloader_path, dataset_type) ==
    LET data_blob_path == <<dataset_type, "_">> \o PathName(dataloader_path)
    IN IF gcs_blob_prefix # <<>>
       THEN join("/", <<gcs_blob_prefix, data_blob_path>>)
       ELSE data_blob_path

\* a slip: `if dataloader_path is not None:` in place of `if dataloader_path:`
upload_origin_data_if_not_none(gcs_bucket, gcs_blob_prefix, dataloader_path, dataset_type, env) ==
    IF ~dataloader_path.isNone
    THEN LET data_blob_path == origin_blob_path(gcs_blob_prefix,
                                                dataloader_path.str, dataset_type)
             up == upload_from_filename(gcs_bucket, data_blob_path,
                                        PathStr(dataloader_path.str), env.up_origin)
         IN [exc |-> up.exc,
             value |-> Some(GS \o join("/", <<gcs_bucket, data_blob_path>>)),
             trace |-> up.trace]
    ELSE [exc |-> NoExc, value |-> None, trace |-> <<>>]

\* a slip: a failed upload of the origin data is swallowed
upload_origin_data_swallowing(gcs_bucket, gcs_blob_prefix, dataloader_path, dataset_type, env) ==
    IF Truthy(dataloader_path)
    THEN LET data_blob_path == origin_blob_path(gcs_blob_prefix,
                                                dataloader_path.str, dataset_type)
             up == upload_from_filename(gcs_bucket, data_blob_path,
                                        PathStr(dataloader_path.str), env.up_origin)
         IN [exc |-> NoExc,
             value |-> Some(GS \o join("/", <<gcs_bucket, data_blob_path>>)),
             trace |-> up.trace]
    ELSE [exc |-> NoExc, value |-> None, trace |-> <<>>]

\* lines 109-129, the branch `if dataloader_path:` of _serialize_local_dataloader:
\* the origin file is uploaded once; without an origin there is no data path
upload_origin_data(gcs_bucket, gcs_blob_prefix, dataloader_path, dataset_type, env) ==
    IF Truthy(dataloader_path)
    THEN LET data_blob_path == origin_blob_path(gcs_blob_prefix,
                                                dataloader_path.str, dataset_type)
             up == upload_from_filename(gcs_bucket, data_blob_path,
                                        PathStr(dataloader_path.str), env.up_origin)
         IN [exc |-> up.exc,
             value |-> Some(GS \o join("/", <<gcs_bucket, data_blob_path>>)),
             trace |-> up.trace]
    ELSE [exc |-> NoExc, value |-> None, trace |-> <<>>]

_serialize_local_dataloader(artifact_uri, dataloader_path, obj, dataset_type, env, f) ==
    IF ~startswith(artifact_uri, GS)
    THEN LET local_path == artifact_uri \o dataloader_file_name(dataset_type)
             sv == torch_save(obj, local_path, env.disk, f)
         IN IF sv.exc # NoExc THEN sv
            ELSE Returns(<<local_path, dataloader_path>>, sv.trace, sv.fs)
    ELSE LET dest == extract_bucket_and_prefix_from_gcs_path(artifact_uri)
             data == upload_origin_data(dest.bucket, dest.prefix,
                                        dataloader_path, dataset_type, env)
             path == serialize_to_tmp_and_copy_to_gcs(
                         dataloader_file_name(dataset_type),
                         dest.bucket, dest.prefix, obj, env.up_artifact)
         IN IF dest.exc # NoExc THEN Raises(dest.exc, <<>>, f)
            ELSE IF data.exc # NoExc THEN Raises(data.exc, data.trace, f)
            ELSE IF path.exc # NoExc
                 THEN Raises(path.exc, data.trace \o path.trace, f)
            ELSE Returns(<<path.value, data.value>>, data.trace \o path.trace, f)

\* a slip: every DataLoader is handed to the helper for local origins
_serialize_dataloader_always_local(artifact_uri, obj, dataset_type, env, f) ==
    _serialize_local_dataloader(artifact_uri, obj.dataset.root, obj, dataset_type, env, f)

\* getattr(obj.dataset, "root", None), then the choice of helper
_serialize_dataloader(artifact_uri, obj, dataset_type, env, f) ==
    LET root == obj.dataset.root
    IN IF Truthy(root) /\ startswith(root.str, GS)
       THEN _serialize_remote_dataloader(artifact_uri, root, obj, dataset_type, env, f)
       ELSE _serialize_local_dataloader(artifact_uri, root, obj, dataset_type, env, f)

\* tempfile.TemporaryDirectory().__enter__: a directory no other call holds
TemporaryDirectory_enter(dirs) ==
    <<"/", "tmp", "/", "tmpdir" \o ToString(Cardinality(dirs))>>

\* a slip: the directory is removed at the end of the body, not by a with
TemporaryDirectory_exit_on_success(dirs, d, exc) ==
    IF exc = NoExc THEN dirs \ {d} ELSE dirs

\* tempfile.TemporaryDirectory().__exit__: runs however the body ended
TemporaryDirectory_exit(dirs, d, exc) == dirs \ {d}

\* the body of the with statement: download, then load the downloaded file
with_body(tmpdirname, gcs_bucket, gcs_blob, env) ==
    LET dest_file == PathJoin(tmpdirname, <<"deserialized_dataloader.pth">>)
        dl == download_to_filename(gcs_bucket, gcs_blob, dest_file, env.download)
        ld == torch_load(dest_file, env.blob)
    IN IF dl.exc # NoExc THEN [exc |-> dl.exc, value |-> None, trace |-> dl.trace]
       ELSE [exc |-> ld.exc, value |-> ld.value, trace |-> dl.trace \o ld.trace]

\* except (ValueError, RuntimeError) as err: raise RuntimeError(...)
except_clause(artifact_uri, err) ==
    IF err.type \in {"ValueError", "RuntimeError"}
    THEN Exc("RuntimeError",
             <<"There was a problem reading the model at '">> \o artifact_uri
             \o <<"': ">> \o err.msg)
    ELSE err

\* lines 177-179: a local location is loaded in place
deserialize_local(artifact_uri, f, dirs) ==
    LET ld == torch_load(artifact_uri,
                         IF artifact_uri \in DOMAIN f THEN f[artifact_uri]
                         ELSE NoFile)
    IN [exc |-> ld.exc, value |-> ld.value, trace |-> ld.trace, tmpdirs |-> dirs]

\* lines 181-208: a gs:// location is downloaded into a temporary directory
deserialize_remote(artifact_uri, env, dirs) ==
    LET src == extract_bucket_and_prefix_from_gcs_path(artifact_uri)
        d == TemporaryDirectory_enter(dirs)
        body == with_body(d, src.bucket, src.prefix, env)
        tr == <<[ev |-> "tmpdir.create", path |-> d]>> \o body.trace
    IN IF src.exc # NoExc
       THEN [exc |-> src.exc, value |-> None, trace |-> <<>>, tmpdirs |-> dirs]
       ELSE [exc |-> except_clause(artifact_uri, body.exc),
             value |-> body.value,
             trace |-> tr,
             tmpdirs |-> TemporaryDirectory_exit(dirs \cup {d}, d, body.exc)]

\* a slip: the test for a local location is missing
_deserialize_dataloader_always_remote(artifact_uri, env, f, dirs) ==
    deserialize_remote(artifact_uri, env, dirs)

_deserialize_dataloader(artifact_uri, env, f, dirs) ==
    IF ~startswith(artifact_uri, GS)
    THEN deserialize_local(artifact_uri, f, dirs)
    ELSE deserialize_remote(artifact_uri, env, dirs)

\* ------------------------------------------------- utils/source_utils.py

\* SourceMaker.__init__: self.source = ["class {}:".format(cls_name)]
SourceMaker_init(cls_name) == << <<"class ", cls_name, ":">> >>

\* SourceMaker.add_method: self.source.extend(method_str.split("\n"))
SourceMaker_add_method(source, method_str) == source \o split(method_str, "\n")

\* a slip: only inspect.ismethod(value) is tested
is_method_only(value) == value.kind = "method"

\* inspect.ismethod(value) or inspect.isfunction(value)
is_method_or_function(value) == value.kind = "method" \/ value.kind = "function"

\* inspect.getsource(value): the text, or OSError when no source file is known
getsource(value) ==
    IF value.source.isNone
    THEN [exc |-> Exc("OSError", <<"could not get source code">>), text |-> <<>>]
    ELSE [exc |-> NoExc, text |-> value.source.str]

\* for key, value in inspect.getmembers(obj): ...
RECURSIVE members_loop(_, _)
members_loop(source, members) ==
    IF members = <<>> THEN [exc |-> NoExc, source |-> source]
    ELSE LET value == Head(members)
             got == getsource(value)
         IN IF ~is_method_or_function(value)
            THEN members_loop(source, Tail(members))
            ELSE IF got.exc # NoExc THEN [exc |-> got.exc, source |-> source]
            ELSE members_loop(SourceMaker_add_method(source, got.text),
                              Tail(members))

_make_class_source(obj) ==
    LET r == members_loop(SourceMaker_init(obj.class_name), obj.members)
    IN [exc |-> r.exc,
        value |-> IF r.exc = NoExc THEN join("\n", r.source) ELSE <<>>]

\* the four import lines of _make_source
Preamble ==
    << <<"import torch">>,
       <<"import pandas as pd">>,
       <<"from google.cloud.aiplatform import training_util">>,
       <<"from google.cloud.aiplatform.experimental.vertex_model.serializers import *">> >>

\* the names _make_source can resolve: its parameters, its local src, and the
\* globals of source_utils.py (no builtin is called args or kwargs)
ScopeNames ==
    {"cls_source", "cls_name", "instance_method", "pass_through_params",
     "param_name_to_serialized_info", "obj", "src",
     "inspect", "Any", "SourceMaker", "_make_class_source", "_make_source"}

\* obj._data_serialization_mapping (SerializationRegistry):
\* type tag -> (serializer, deserializer)
data_serialization_mapping ==
    [t \in {"DataFrame", "DataLoader"} |->
        IF t = "DataFrame"
        THEN <<"_serialize_dataframe", "_deserialize_dataframe">>
        ELSE <<"_serialize_dataloader", "_deserialize_dataloader">>]

\* for parameter_name, (parameter_uri, parameter_type) in ....items(): ...
RECURSIVE serialized_loop(_, _)
serialized_loop(src, items) ==
    IF items = <<>> THEN [exc |-> NoExc, src |-> src]
    ELSE LET it == Head(items)
         IN IF it.type \notin DOMAIN data_serialization_mapping
            THEN [exc |-> Exc("KeyError", <<it.type>>), src |-> src]
            ELSE LET deserializer == data_serialization_mapping[it.type][1]
                 IN serialized_loop(
                        src \o <<it.name, "=", deserializer, "(">> \o it.uri
                            \o <<"), ">>,
                        Tail(items))

\* for parameter_name, parameter_value in pass_through_params.items(): ...
RECURSIVE pass_through_loop(_, _)
pass_through_loop(src, items) ==
    IF items = <<>> THEN src
    ELSE pass_through_loop(src \o <<Head(items).name, "=", Head(items).value, ", ">>,
                           Tail(items))

\* lines 85-104 of _make_source: instantiate, then the method call
entry_block(src, cls_name, instance_method, pass_through_params, param_name_to_serialized_info, class_args_arg, class_args_kwarg) ==
    LET src1 == src \o <<"\t", "model = ", cls_name, "(">> \o class_args_arg
                    \o <<", ">> \o class_args_kwarg \o <<")", "\n">>
        src2 == src1 \o <<"\t", "model.", instance_method, "(">>
        ser == serialized_loop(src2, param_name_to_serialized_info)
    IN IF ser.exc # NoExc THEN [exc |-> ser.exc, value |-> <<>>]
       ELSE [exc |-> NoExc,
             value |-> pass_through_loop(ser.src, pass_through_params)
                       \o <<")", "\n">>]

_make_source(cls_source, cls_name, instance_method, pass_through_params, param_name_to_serialized_info, obj) ==
    LET src1 == join("\n", Preamble \o <<cls_source>>)
        src2 == src1 \o <<"if __name__ == '__main__':", "\n">>
    IN IF ~({"args", "kwargs"} \subseteq ScopeNames)
       THEN [exc |-> Exc("NameError", <<"name 'args' is not defined">>),
             value |-> <<>>]
       ELSE entry_block(src2, cls_name, instance_method, pass_through_params,
                        param_name_to_serialized_info, <<"[]">>, <<"[]">>)

\* ---------------------------------------------------------------- inputs

LocalRoots == { <<"/", "tmp", "/", "out", "/">>, <<"/", "tmp", "/", "out">> }

\* remote target roots gs://<bucket>[/<prefix>][/]
RemoteTargets ==
    { [bucket |-> <<"bkt">>, prefix |-> <<>>, slash |-> FALSE],
      [bucket |-> <<"bkt">>, prefix |-> <<>>, slash |-> TRUE],
      [bucket |-> <<"bkt">>, prefix |-> <<"out">>, slash |-> FALSE],
      [bucket |-> <<"bkt">>, prefix |-> <<"out">>, slash |-> TRUE],
      [bucket |-> <<"bkt">>, prefix |-> <<"a", "/", "b">>, slash |-> TRUE],
      [bucket |-> <<>>, prefix |-> <<"out">>, slash |-> FALSE] }

GcsUri(t) ==
    GS \o t.bucket \o (IF t.prefix # <<>> THEN <<"/">> \o t.prefix ELSE <<>>)
       \o (IF t.slash THEN <<"/">> ELSE <<>>)

TargetRoots == LocalRoots \cup { GcsUri(t) : t \in RemoteTargets }

Roles == {"training", "testing"}

DL(root, batch_size) == [dataset |-> [root |-> root], batch_size |-> batch_size]

\* origin files on the local disk: directory and file name
OriginFiles == { [dir |-> <<"/", "data", "/">>, base |-> <<"train.csv">>] }

LocalOrigins == { o.dir \o o.base : o \in OriginFiles }

RemoteOrigins == { GS \o <<"src", "/", "data.csv">> }

DataLoaders ==
    { DL(None, 32), DL(Some(<<>>), 32) }
    \cup { DL(Some(o), 32) : o \in LocalOrigins \cup RemoteOrigins }

StoreErrors == {"Forbidden"}

\* outcomes of the external steps of one serialize call; the call stops at
\* the first failure, so at most one of them fails
SerializeEnvs ==
    { [disk |-> "ok", up_origin |-> "ok", up_artifact |-> "ok"],
      [disk |-> "FileNotFoundError", up_origin |-> "ok", up_artifact |-> "ok"] }
    \cup { [disk |-> "ok", up_origin |-> e, up_artifact |-> "ok"] : e \in StoreErrors }
    \cup { [disk |-> "ok", up_origin |-> "ok", up_artifact |-> e] : e \in StoreErrors }

LoadErrors == {"RuntimeError", "ValueError", "UnpicklingError"}

\* files that are on the local disk before any call
InitialFiles ==
    { <<"/", "tmp", "/", "truncated.pth">>, <<"/", "tmp", "/", "old_format.pth">> }

InitialContent(p) ==
    IF p = <<"/", "tmp", "/", "truncated.pth">> THEN Corrupt("UnpicklingError")
    ELSE Corrupt("RuntimeError")

LocalLocations ==
    { r \o dataloader_file_name(d) : r \in LocalRoots, d \in Roles }
    \cup InitialFiles

RemoteLocations ==
    { GS \o <<"bkt", "/", "out", "/">> \o dataloader_file_name("training"),
      GS \o <<"/", "out">> }

\* what the object store answers to one deserialize call
DeserializeEnvs ==
    { [download |-> "NotFound", blob |-> NoFile] }
    \cup { [download |-> "ok", blob |-> Corrupt(e)] : e \in LoadErrors }
    \cup { [download |-> "ok", blob |-> Pickled(DL(None, 32))] }

\* members of an instance in inspect.getmembers order (sorted by name)
MemberPool ==
    << [name |-> "__init__", kind |-> "method",
        source |-> Some(<<"    def __init__(self):", "\n", "        self.batch_size = 32", "\n">>)],
       [name |-> "__repr__", kind |-> "method-wrapper", source |-> None],
       [name |-> "config_cls", kind |-> "class",
        source |-> Some(<<"class Config:", "\n", "    batch_size = 32", "\n">>)],
       [name |-> "fit", kind |-> "method",
        source |-> Some(<<"    def fit(self, data):", "\n", "        pass", "\n">>)],
       [name |-> "helper", kind |-> "function",
        source |-> Some(<<"def helper(x):", "\n", "    return x", "\n">>)],
       [name |-> "predict", kind |-> "function", source |-> None] >>

RECURSIVE Pick(_, _)
Pick(seq, keep) ==
    IF seq = <<>> THEN <<>>
    ELSE (IF Len(MemberPool) - Len(seq) + 1 \in keep THEN <<Head(seq)>> ELSE <<>>)
         \o Pick(Tail(seq), keep)

ClassNames == {"MyModel", "LinearRegression"}

Instances ==
    { [class_name |-> c, members |-> Pick(MemberPool, keep)] :
        c \in ClassNames,
        keep \in { k \in SUBSET (1..Len(MemberPool)) : Cardinality(k) <= MaxMembers } }

SerializedParams ==
    { [name |-> "dataloader", type |-> "DataLoader",
       uri |-> GS \o <<"bkt", "/">> \o dataloader_file_name("training")],
      [name |-> "df", type |-> "DataFrame",
       uri |-> GS \o <<"bkt", "/", "my_training_dataframe.csv">>],
      [name |-> "labels", type |-> "ndarray",
       uri |-> GS \o <<"bkt", "/", "labels.npy">>] }

PassThroughParams ==
    { [name |-> "epochs", value |-> "10"], [name |-> "lr", value |-> "0.1"] }

\* dicts in insertion order: sequences without a repeated key
Dicts(S, n) ==
    UNION { { s \in [1..k -> S] : \A i, j \in 1..k : i # j => s[i].name # s[j].name } :
            k \in 0..n }

ClassSources ==
    { <<"class ", "MyModel", ":">>,
      <<"class ", "MyModel", ":", "\n", "    def fit(self, data):", "\n",
        "        pass", "\n">> }

\* ------------------------------------------------------------ the program

Init ==
    /\ call = [fn |-> "none"]
    /\ fs = [p \in InitialFiles |-> InitialContent(p)]
    /\ tmpdirs = {}
    /\ ncalls = 0

Serialize ==
    /\ ncalls < MaxCalls
    /\ \E artifact_uri \in TargetRoots, obj \in DataLoaders,
          dataset_type \in Roles, env \in SerializeEnvs :
          LET r == _serialize_dataloader(artifact_uri, obj, dataset_type, env, fs)
          IN /\ call' = [fn |-> "_serialize_dataloader",
                         artifact_uri |-> artifact_uri, obj |-> obj,
                         dataset_type |-> dataset_type,
                         exc |-> r.exc, value |-> r.value, trace |-> r.trace]
             /\ fs' = r.fs
    /\ ncalls' = ncalls + 1
    /\ UNCHANGED tmpdirs

Deserialize ==
    /\ ncalls < MaxCalls
    /\ \E artifact_uri \in LocalLocations \cup RemoteLocations,
          env \in DeserializeEnvs :
          LET r == _deserialize_dataloader(artifact_uri, env, fs, tmpdirs)
          IN /\ call' = [fn |-> "_deserialize_dataloader",
                         artifact_uri |-> artifact_uri,
                         exc |-> r.exc, value |-> r.value, trace |-> r.trace]
             /\ tmpdirs' = r.tmpdirs
    /\ ncalls' = ncalls + 1
    /\ UNCHANGED fs

MakeClassSource ==
    /\ ncalls < MaxCalls
    /\ \E obj \in Instances :
          LET r == _make_class_source(obj)
          IN call' = [fn |-> "_make_class_source", obj |-> obj,
                      exc |-> r.exc, value |-> r.value]
    /\ ncalls' = ncalls + 1
    /\ UNCHANGED <<fs, tmpdirs>>

MakeSource ==
    /\ ncalls < MaxCalls
    /\ \E cls_source \in ClassSources, instance_method \in {"fit"},
          pass_through_params \in Dicts(PassThroughParams, MaxParams),
          param_name_to_serialized_info \in Dicts(SerializedParams, MaxParams) :
          LET r == _make_source(cls_source, "MyModel", instance_method,
                                pass_through_params,
                                param_name_to_serialized_info, "MyModel")
          IN call' = [fn |-> "_make_source", cls_source |-> cls_source,
                      cls_name |-> "MyModel", instance_method |-> instance_method,
                      pass_through_params |-> pass_through_params,
                      param_name_to_serialized_info |-> param_name_to_serialized_info,
                      exc |-> r.exc, value |-> r.value]
    /\ ncalls' = ncalls + 1
    /\ UNCHANGED <<fs, tmpdirs>>

\* the artifact serializer and deserializer
Next == Serialize \/ Deserialize

Spec == Init /\ [][Next]_vars

\* the source inspector and script synthesizer
SourceNext == MakeClassSource \/ MakeSource

SourceSpec == Init /\ [][SourceNext]_vars

\* ------------------------------------------------------------ properties

IsSerialize == call.fn = "_serialize_dataloader"

IsDeserialize == call.fn = "_deserialize_dataloader"

IsMakeClassSource == call.fn = "_make_class_source"

IsMakeSource == call.fn = "_make_source"

Ok == call.exc = NoExc

IsRemote(s) == startswith(s, GS)

HasRemoteOrigin(obj) == Truthy(obj.dataset.root) /\ IsRemote(obj.dataset.root.str)

Events(tr, ev) == { i \in 1..Len(tr) : tr[i].ev = ev }

Failed(tr, ev) == { i \in Events(tr, ev) : tr[i].raised # NoExc }

\* the places where pat occurs in s
Positions(pat, s) ==
    { i \in 1..(Len(s) - Len(pat) + 1) : SubSeq(s, i, i + Len(pat) - 1) = pat }

\* the temporary file the serialized artifact is uploaded from
IsTmpFile(file) == startswith(file, <<"/", "tmp", "/", "tmpfile", "/">>)

\* the error a failed load is to surface as: it names the location and the cause
ArtifactLoadError(location, cause) ==
    Exc("RuntimeError",
        <<"There was a problem reading the model at '">> \o location
        \o <<"': ">> \o cause.msg)

\* C1: whenever the load step of a deserialize call fails, for a local or a
\* remote location, the caller sees the one load error naming the location and
\* the cause; a failed download reaches the caller as it was raised.
C1_LoadFailureWrapped ==
    IsDeserialize =>
        /\ \A i \in Failed(call.trace, "torch.load") :
               call.exc = ArtifactLoadError(call.artifact_uri, call.trace[i].raised)
        /\ \A i \in Failed(call.trace, "download") :
               call.exc = call.trace[i].raised

\* C2: after a deserialize call on a remote location, every temporary directory
\* the call created is gone, whether the call returned or raised.
C2_TempDirRemoved ==
    (IsDeserialize /\ IsRemote(call.artifact_uri)) =>
        \A i \in Events(call.trace, "tmpdir.create") :
            call.trace[i].path \notin tmpdirs

\* a remote deserialize whose load raised an error the except clause does not
\* catch, with the directory it created removed
C2_Witness ==
    /\ IsDeserialize /\ IsRemote(call.artifact_uri)
    /\ Events(call.trace, "tmpdir.create") # {}
    /\ Failed(call.trace, "torch.load") # {}
    /\ call.exc.type = "UnpicklingError"
    /\ tmpdirs = {}

\* C3 as stated: a successful serialize returns an origin_location that is
\* present exactly when the artifact's origin is not None.
C3_OriginPresentIffNotNone ==
    (IsSerialize /\ Ok) =>
        (~call.value[2].isNone <=> ~call.obj.dataset.root.isNone)

\* C3 amended: with a local target the origin_location is present exactly when
\* the origin is not None; with a remote target it is present exactly when the
\* origin is neither None nor the empty string.
C3_OriginPresentIffUsable ==
    (IsSerialize /\ Ok) =>
        (~call.value[2].isNone <=>
            IF IsRemote(call.artifact_uri)
            THEN Truthy(call.obj.dataset.root)
            ELSE ~call.obj.dataset.root.isNone)

\* a successful serialize to a remote target of an artifact whose origin is the
\* empty string: no origin_location comes back
C3_Witness ==
    /\ IsSerialize /\ Ok
    /\ IsRemote(call.artifact_uri)
    /\ call.obj.dataset.root = Some(<<>>)
    /\ call.value[2].isNone

C5_OriginUploadPath ==
    (IsSerialize /\ Ok) =>
        \A t \in RemoteTargets, o \in OriginFiles :
            (/\ call.artifact_uri = GcsUri(t)
             /\ call.obj.dataset.root = Some(o.dir \o o.base)) =>
                LET tr == call.trace
                    pre == IF t.prefix = <<>> THEN <<>> ELSE t.prefix \o <<"/">>
                    blob == pre \o <<call.dataset_type, "_">> \o o.base
                    ups == { i \in Events(tr, "upload") : tr[i].file = o.dir \o o.base }
                IN /\ Cardinality(ups) = 1
                   /\ \A i \in ups : tr[i].bucket = t.bucket /\ tr[i].blob = blob
                   /\ call.value[2] = Some(GS \o t.bucket \o <<"/">> \o blob)
                   /\ call.value[1] = GS \o t.bucket \o <<"/">> \o pre
                          \o <<"my_", call.dataset_type, "_dataloader.pth">>

\* serialize("gs://bkt/out/", artifact with origin "/data/train.csv", "training")
\* returned gs://bkt/out/my_training_dataloader.pth and
\* gs://bkt/out/training_train.csv
C5_Witness ==
    /\ IsSerialize /\ Ok
    /\ call.artifact_uri = <<"gs:", "/", "/", "bkt", "/", "out", "/">>
    /\ call.obj.dataset.root = Some(<<"/", "data", "/", "train.csv">>)
    /\ call.dataset_type = "training"
    /\ call.value[1] = <<"gs:", "/", "/", "bkt", "/", "out", "/",
                         "my_", "training", "_dataloader.pth">>
    /\ call.value[2] = Some(<<"gs:", "/", "/", "bkt", "/", "out", "/",
                              "training", "_", "train.csv">>)

\* C8: a deserialize of the location a successful serialize to a local target
\* has just returned, for an artifact whose origin is local or absent, loads
\* the path serialize saved to and returns the artifact that was serialized;
\* neither call uploads or downloads anything.
C8_LocalRoundTrip ==
    [][(/\ IsSerialize /\ Ok
        /\ ~IsRemote(call.artifact_uri) /\ ~HasRemoteOrigin(call.obj)
        /\ call'.fn = "_deserialize_dataloader"
        /\ call'.artifact_uri = call.value[1])
       => (/\ call'.exc = NoExc
           /\ call'.value = call.obj
           /\ \A i \in Events(call.trace, "torch.save"),
                 j \in Events(call'.trace, "torch.load") :
                     call.trace[i].path = call'.trace[j].path
           /\ Events(call.trace, "torch.save") # {}
           /\ Events(call'.trace, "torch.load") # {}
           /\ Events(call.trace, "upload") = {}
           /\ Events(call'.trace, "download") = {}
           /\ Events(call'.trace, "tmpdir.create") = {})]_vars

\* a deserialize of a local location that returned the artifact a serialize
\* call saved there
C8_Witness ==
    /\ IsDeserialize /\ Ok
    /\ ~IsRemote(call.artifact_uri)
    /\ call.artifact_uri \in DOMAIN fs
    /\ fs[call.artifact_uri] = Pickled(call.value)
    /\ ~HasRemoteOrigin(call.value)

\* C10: in a serialize call to a remote target no blob is uploaded twice, the
\* upload of the origin comes before the artifact is saved and uploaded, and a
\* failed upload of the origin ends the call with that very error: nothing
\* follows it and no location is returned.
C10_SingleAttemptInOrder ==
    (IsSerialize /\ IsRemote(call.artifact_uri)) =>
        LET tr == call.trace
            ups == Events(tr, "upload")
            art == { i \in ups : IsTmpFile(tr[i].file) }
            origin == ups \ art
        IN /\ \A i, j \in ups :
                  (tr[i].bucket = tr[j].bucket /\ tr[i].blob = tr[j].blob) => i = j
           /\ Cardinality(origin) <= 1 /\ Cardinality(art) <= 1
           /\ \A i \in origin :
                  \A j \in Events(tr, "tmp.create") \cup Events(tr, "torch.save") \cup art :
                      i < j
           /\ \A i \in origin :
                  tr[i].raised # NoExc =>
                      /\ call.exc = tr[i].raised
                      /\ Len(tr) = i
                      /\ art = {}
                      /\ call.value = None

\* a serialize call whose upload of the origin failed
C10_Witness ==
    /\ IsSerialize /\ IsRemote(call.artifact_uri)
    /\ \E i \in Failed(call.trace, "upload") :
          /\ ~IsTmpFile(call.trace[i].file)
          /\ call.exc = call.trace[i].raised
    /\ call.exc.type = "Forbidden"

\* every type tag of the items has an entry in the registry
AllRegistered(items) ==
    \A i \in 1..Len(items) : items[i].type \in DOMAIN data_serialization_mapping

\* the name of the deserializer the registry holds for a type tag
RegisteredDeserializer(type) == data_serialization_mapping[type][2]

\* <param_name>=<deserializer>(<location>),
SerializedArgument(it) ==
    <<it.name, "=", RegisteredDeserializer(it.type), "(">> \o it.uri \o <<"), ">>

\* <name>=<value>,
PassThroughArgument(it) == <<it.name, "=", it.value, ", ">>

\* C6: a synthesize call whose type tags are all registered returns a script
\* that holds, for each serialized parameter, exactly one argument naming the
\* registered deserializer; a call with an unregistered type tag fails with the
\* unknown-type-tag error (the registry's KeyError) and returns no script.
C6_OneDeserializerCallPerParam ==
    IsMakeSource =>
        LET items == call.param_name_to_serialized_info
        IN IF AllRegistered(items)
           THEN /\ Ok
                /\ \A i \in 1..Len(items) :
                       Cardinality(Positions(SerializedArgument(items[i]),
                                             call.value)) = 1
           ELSE /\ call.exc.type = "KeyError"
                /\ call.value = <<>>

\* C7: a synthesize call whose type tags are all registered returns the import
\* preamble, then the class source as given, then the entry block: the
\* entry-point guard at the start of a line, the construction of the class
\* bound to a name, and one call of the method with the serialized parameters
\* before the pass-through parameters and the closing parenthesis last.
C7_ScriptLayout ==
    (IsMakeSource /\ AllRegistered(call.param_name_to_serialized_info)) =>
        LET v == call.value
            head == join("\n", Preamble) \o <<"\n">> \o call.cls_source
            guard == Positions(<<"if __name__ == '__main__':", "\n">>, v)
            construct == Positions(<<"model = ", call.cls_name, "(">>, v)
            invoke == Positions(<<"model.", call.instance_method, "(">>, v)
            ser == call.param_name_to_serialized_info
            pas == call.pass_through_params
        IN /\ Ok
           /\ startswith(v, head)
           /\ Cardinality(guard) = 1 /\ Cardinality(invoke) = 1
           /\ construct # {}
           /\ \A g \in guard :
                  /\ g > Len(head)
                  /\ v[g - 1] = "\n"
                  /\ \A c \in construct, m \in invoke : g < c /\ c < m
           /\ \A i \in 1..Len(ser), j \in 1..Len(pas) :
                  \A a \in Positions(SerializedArgument(ser[i]), v),
                     b \in Positions(PassThroughArgument(pas[j]), v) : a < b
           /\ \A j \in 1..Len(pas) :
                  Cardinality(Positions(PassThroughArgument(pas[j]), v)) = 1
           /\ endswith(v, <<")", "\n">>)

RECURSIVE SumOfLengths(_, _)
SumOfLengths(members, included) ==
    IF members = <<>> THEN 0
    ELSE (IF Len(members) \in included
          THEN 1 + Len(members[Len(members)].source.str) ELSE 0)
         + SumOfLengths(SubSeq(members, 1, Len(members) - 1), included)

\* C9: the class source starts with the one line class <Name>: of the
\* instance's class; the source text of a member is in it exactly when the
\* member is a bound method or a plain function; the texts stand in the order
\* the members are enumerated in, each on a new line, and nothing else is in it.
C9_ClassSourceLayout ==
    (IsMakeClassSource /\ Ok) =>
        LET ms == call.obj.members
            v == call.value
            header == <<"class ", call.obj.class_name, ":">>
            lines == split(v, "\n")
            included == { i \in 1..Len(ms) : ms[i].kind \in {"method", "function"} }
            pos(i) == Positions(ms[i].source.str, v)
        IN /\ lines[1] = header
           /\ Cardinality({ k \in 1..Len(lines) : lines[k] = header }) = 1
           /\ \A i \in 1..Len(ms) :
                  ~ms[i].source.isNone => (pos(i) # {} <=> i \in included)
           /\ \A i \in included : \A a \in pos(i) : v[a - 1] = "\n"
           /\ \A i, j \in included :
                  i < j => \A a \in pos(i), b \in pos(j) : a < b
           /\ Len(v) = Len(header) + SumOfLengths(ms, included)

\* the class source of an instance with a class-valued attribute and a plain
\* function: the function's text is in it, the attribute's is not
C9_Witness ==
    /\ IsMakeClassSource /\ Ok
    /\ \E i, j \in 1..Len(call.obj.members) :
          /\ call.obj.members[i].kind = "class"
          /\ call.obj.members[j].kind = "function"
          /\ Positions(call.obj.members[j].source.str, call.value) # {}
          /\ Positions(call.obj.members[i].source.str, call.value) = {}

====
